---- MODULE Spec2Model ----
(***************************************************************************)
(* The Zammad client adapter of ticketing/tools/zammad_client.py.          *)
(*                                                                         *)
(* The adapter keeps no state of its own: every public operation builds a  *)
(* client, talks to the backend and returns or raises.  The state of the   *)
(* model is therefore what one invocation leaves behind for an observer:   *)
(* which operation ran (op), with which arguments (arg), against which     *)
(* environment and backend behaviour (world), the backend calls it issued  *)
(* (calls), the call-shape candidates it invoked (attempts), how it ended  *)
(* (result) and the destination files on disk (fs), which are the only     *)
(* state that survives an invocation.                                      *)
(***************************************************************************)
EXTENDS Integers, Sequences, FiniteSets, TLC

VARIABLES op, arg, world, calls, attempts, result, fs, race

vars == <<op, arg, world, calls, attempts, result, fs, race>>

----------------------------------------------------------------------------
(* Bounds of the model.                                                    *)

MaxPages == 2
MaxPageLen == 2
MaxPriorities == 2
MaxArticles == 2

----------------------------------------------------------------------------
(* Values shared by the operations.                                        *)

None == "None"

\* How a backend call can end: it raises TypeError (signature mismatch),
\* raises some other exception, returns a falsy value or a truthy one.
Outcomes == {"TypeError", "Error", "falsy", "truthy"}

\* An exception raised by one backend call: its type and the call shape that
\* raised it.
NoError == [type |-> "None", from |-> "None"]
CallError(type, shape) == [type |-> type, from |-> shape]

\* An exception leaving an operation: its type and the underlying error its
\* message carries.
Exc(type, last) == [type |-> type, last |-> last]

Returned(v) == [status |-> "returned", value |-> v, error |-> Exc("None", NoError)]
Raised(e) == [status |-> "raised", value |-> None, error |-> e]

\* One run of a function: the backend calls it made, the candidates it
\* invoked and its result.
Run(c, a, r) == [calls |-> c, attempts |-> a, result |-> r]

Call(api, shape, args) == [api |-> api, shape |-> shape, args |-> args]

ConnectCall == Call("ZammadAPI", "connect", None)

\* The ticket asked for and another one.
TicketIds == {1, 2}

\* An optional argument: Nil when it is None, Some(v) when it is supplied.
Nil == << >>
Some(v) == <<v>>

RECURSIVE Flatten(_)
Flatten(ss) == IF Len(ss) = 0 THEN << >> ELSE Head(ss) \o Flatten(Tail(ss))

RECURSIVE SeqsUpTo(_, _)
SeqsUpTo(S, n) ==
    IF n = 0 THEN {<< >>}
    ELSE LET shorter == SeqsUpTo(S, n - 1)
         IN  shorter \cup {Append(s, x) : s \in {t \in shorter : Len(t) = n - 1}, x \in S}

----------------------------------------------------------------------------
(* init_zammad_client: the connection factory.                             *)

\* Raises EnvironmentError when `zammad_url` is not set, otherwise builds a
\* fresh client.
init_zammad_client(w) ==
    IF w.configured
    THEN Run(<<ConnectCall>>, << >>, Returned("client"))
    ELSE Run(<< >>, << >>, Raised(Exc("EnvironmentError", NoError)))

----------------------------------------------------------------------------
(* _collect_pages: the page collector.                                     *)

\* A paginated answer of the backend is a chain of pages; page i's
\* next_page() returns page i+1, and None after the last page.  A page is
\* an iterable of items or a single non-iterable object.  Every page that
\* leads to another one exposes next_page; the last page may or may not.
Items == {1, 2}

IterPages == [kind : {"iter"}, items : SeqsUpTo(Items, MaxPageLen)]
SinglePages == [kind : {"single"}, items : {<<x>> : x \in Items}]
Pages == IterPages \cup SinglePages

Page(body, hasNext) == [kind |-> body.kind, items |-> body.items, hasNext |-> hasNext]

PagedChains ==
    {[i \in 1..Len(c) |-> Page(c[i], i < Len(c) \/ lastHasNext)] :
        c \in SeqsUpTo(Pages, MaxPages), lastHasNext \in BOOLEAN}

\* Backends that serve an empty page and would serve more after it.
EmptyPage == [kind |-> "iter", items |-> << >>]

InterruptedChains ==
    {<<Page(a, TRUE), Page(EmptyPage, TRUE), Page(b, lastHasNext)>> :
        a \in Pages, b \in Pages, lastHasNext \in BOOLEAN}

Chains == PagedChains \cup InterruptedChains

\* Every page the backend serves counts as truthy, an empty one included.
TruthyWhenServed(chain, i) == i >= 1 /\ i <= Len(chain)

\* `if not page`: None and empty iterables are falsy, an object is truthy.
Truthy(chain, i) == i >= 1 /\ i <= Len(chain) /\ Len(chain[i].items) > 0

\* Extend with the page put in front of what was collected before.
ExtendInFront(items, page) == page.items \o items

\* items.extend(page), or items.append(page) on TypeError.
Extend(items, page) == items \o page.items

\* The loop of lines 52-59, from the page at position i; nexts counts the
\* next_page() calls made so far.
RECURSIVE CollectLoop(_, _, _, _)
CollectLoop(chain, i, items, nexts) ==
    IF chain[i].hasNext
    THEN LET j == i + 1
         IN  IF ~Truthy(chain, j)
             THEN [items |-> items, nexts |-> nexts + 1]
             ELSE CollectLoop(chain, j, Extend(items, chain[j]), nexts + 1)
    ELSE [items |-> items, nexts |-> nexts]

_collect_pages(chain) ==
    IF ~Truthy(chain, 1)
    THEN [items |-> << >>, nexts |-> 0]
    ELSE CollectLoop(chain, 1, Extend(<< >>, chain[1]), 0)

NextPageCalls(n) == [i \in 1..n |-> Call("page", "next_page", None)]

----------------------------------------------------------------------------
(* get_all_tickets                                                         *)

get_all_tickets(w) ==
    LET conn == init_zammad_client(w)
    IN  IF conn.result.status = "raised" THEN conn
        ELSE LET got == _collect_pages(w.chain)
             IN  Run(conn.calls \o <<Call("ticket", "all", None)>> \o NextPageCalls(got.nexts),
                     << >>, Returned(got.items))

GetAllTickets ==
    /\ op = "idle"
    /\ \E configured \in BOOLEAN, chain \in Chains :
         LET w == [configured |-> configured, chain |-> chain]
             run == get_all_tickets(w)
         IN  /\ op' = "get_all_tickets"
             /\ arg' = None
             /\ world' = w
             /\ calls' = run.calls
             /\ attempts' = run.attempts
             /\ result' = run.result
    /\ UNCHANGED <<fs, race>>

----------------------------------------------------------------------------
(* send_message_to_ticket                                                  *)

\* The call shapes of lines 360-367, in the order they are appended.
CreateShapes == <<"create_params_kw", "create_params_pos", "create_id_params_pos",
                  "create_expanded_kw">>
UpdateShapes == <<"update_kw", "update_pos">>
SendShapes == CreateShapes \o UpdateShapes

Range(s) == {s[i] : i \in 1..Len(s)}

\* Lines 346-354: the parameter set sent to the backend.
SendParams(a) ==
    LET base == [ticket_id |-> a.ticket_id, body |-> a.message, internal |-> a.internal]
        withSubject == IF a.subject # None THEN ("subject" :> a.subject) @@ base ELSE base
        withAuthor == IF a.author_id # None THEN ("author_id" :> a.author_id) @@ withSubject
                      ELSE withSubject
        withType == IF a.article_type # None THEN ("type" :> a.article_type) @@ withAuthor
                    ELSE withAuthor
    IN  IF a.additional_params # None THEN a.additional_params @@ withType ELSE withType

\* The candidate list with the ticket-endpoint shapes tried first.
SendCallersUpdateFirst(w) == UpdateShapes \o (IF w.hasTicketArticle THEN CreateShapes ELSE << >>)

\* Lines 358-367: the candidate list built for this client.
SendCallers(w) == (IF w.hasTicketArticle THEN CreateShapes ELSE << >>) \o UpdateShapes

\* What the backend answers to a call that returns a truthy response: the
\* article endpoint answers with the created article, the ticket endpoint
\* with the updated ticket.
SendResponse(shape, params) ==
    IF shape \in Range(CreateShapes)
    THEN [record |-> "Article", ticket_id |-> params["ticket_id"], body |-> params["body"]]
    ELSE [record |-> "Ticket", ticket_id |-> params["ticket_id"], body |-> None]

\* Invoking one candidate: the backend call it makes, if any, and how it
\* ends.  The update candidates are `getattr(client, "ticket", None) and ...`:
\* without a ticket endpoint they evaluate to None and call nothing.
SendInvoke(shape, w, a, params) ==
    IF shape \in Range(UpdateShapes) /\ ~w.hasTicket
    THEN [calls |-> << >>, outcome |-> "falsy"]
    ELSE [calls |-> <<Call(IF shape \in Range(CreateShapes) THEN "ticket_article.create"
                           ELSE "ticket.update", shape, params)>>,
          outcome |-> w.outcome[shape]]

\* The probing loop keeping the first error instead of the last one.
RECURSIVE SendLoopFirstError(_, _, _, _, _, _, _, _)
SendLoopFirstError(callers, i, w, a, params, cs, as, last_error) ==
    IF i > Len(callers)
    THEN Run(cs, as, Raised(Exc("RuntimeError", last_error)))
    ELSE LET c == callers[i]
             inv == SendInvoke(c, w, a, params)
             cs2 == cs \o inv.calls
             as2 == Append(as, c)
         IN  CASE inv.outcome = "truthy" -> Run(cs2, as2, Returned(SendResponse(c, params)))
               [] inv.outcome = "falsy" ->
                    SendLoopFirstError(callers, i + 1, w, a, params, cs2, as2, last_error)
               [] OTHER ->
                    SendLoopFirstError(callers, i + 1, w, a, params, cs2, as2,
                                       IF last_error = NoError THEN CallError(inv.outcome, c)
                                       ELSE last_error)

\* Lines 369-381: the probing loop, from candidate i on.
RECURSIVE SendLoop(_, _, _, _, _, _, _, _)
SendLoop(callers, i, w, a, params, cs, as, last_error) ==
    IF i > Len(callers)
    THEN Run(cs, as, Raised(Exc("RuntimeError", last_error)))
    ELSE LET c == callers[i]
             inv == SendInvoke(c, w, a, params)
             cs2 == cs \o inv.calls
             as2 == Append(as, c)
         IN  CASE inv.outcome = "truthy" -> Run(cs2, as2, Returned(SendResponse(c, params)))
               [] inv.outcome = "falsy" -> SendLoop(callers, i + 1, w, a, params, cs2, as2, last_error)
               [] OTHER -> SendLoop(callers, i + 1, w, a, params, cs2, as2,
                                    CallError(inv.outcome, c))

send_message_to_ticket(a, w) ==
    LET conn == init_zammad_client(w)
    IN  IF conn.result.status = "raised" THEN conn
        ELSE SendLoop(SendCallers(w), 1, w, a, SendParams(a), conn.calls, << >>, NoError)

SendArgs ==
    [ticket_id : {1}, message : {"hello"}, subject : {None, "Re"},
     author_id : {None}, internal : {FALSE}, article_type : {None},
     additional_params : {None}]

\* The worlds a send can meet.  Only the outcomes of the calls the client
\* can receive are varied.
AllFalsy == [s \in Range(SendShapes) |-> "falsy"]

SendOutcomes(hta, ht) ==
    {f \in [Range(SendShapes) -> Outcomes] :
       /\ ~hta => \A s \in Range(CreateShapes) : f[s] = "falsy"
       /\ ~ht => \A s \in Range(UpdateShapes) : f[s] = "falsy"}

SendWorlds ==
    {[configured |-> FALSE, hasTicketArticle |-> FALSE, hasTicket |-> FALSE,
      outcome |-> AllFalsy]}
    \cup UNION {{[configured |-> TRUE, hasTicketArticle |-> h[1], hasTicket |-> h[2],
                  outcome |-> o] : o \in SendOutcomes(h[1], h[2])} :
                h \in BOOLEAN \X BOOLEAN}

SendMessageToTicket ==
    /\ op = "idle"
    /\ \E a \in SendArgs, w \in SendWorlds :
         LET run == send_message_to_ticket(a, w)
         IN  /\ op' = "send_message_to_ticket"
             /\ arg' = a
             /\ world' = w
             /\ calls' = run.calls
             /\ attempts' = run.attempts
             /\ result' = run.result
    /\ UNCHANGED <<fs, race>>

----------------------------------------------------------------------------
(* ticket.update with its positional fallback, as set_ticket_state and     *)
(* set_ticket_priority end.                                                *)

\* How ticket.update can end in either shape.
UpdateOutcomes == {"TypeError", "Error", "truthy"}

UpdateWorlds ==
    {[update_kw |-> k, update_pos |-> "truthy"] : k \in {"Error", "truthy"}}
    \cup {[update_kw |-> "TypeError", update_pos |-> q] : q \in UpdateOutcomes}

UpdateCall(shape, ticket_id, params) ==
    Call("ticket.update", shape, [id |-> ticket_id, params |-> params])

UpdatedTicket(ticket_id) == [record |-> "Ticket", id |-> ticket_id]

\* try: return client.ticket.update(id=ticket_id, params=params)
\* except TypeError: return client.ticket.update(ticket_id, params)
UpdateTicket(w, ticket_id, params, cs) ==
    LET kw == UpdateCall("update_kw", ticket_id, params)
        pos == UpdateCall("update_pos", ticket_id, params)
    IN  CASE w.update.update_kw = "truthy" ->
               Run(Append(cs, kw), << >>, Returned(UpdatedTicket(ticket_id)))
          [] w.update.update_kw = "Error" ->
               Run(Append(cs, kw), << >>, Raised(Exc("Error", CallError("Error", "update_kw"))))
          [] OTHER ->
               IF w.update.update_pos = "truthy"
               THEN Run(cs \o <<kw, pos>>, << >>, Returned(UpdatedTicket(ticket_id)))
               ELSE Run(cs \o <<kw, pos>>, << >>,
                        Raised(Exc(w.update.update_pos,
                                   CallError(w.update.update_pos, "update_pos"))))

----------------------------------------------------------------------------
(* set_ticket_state                                                        *)

\* The parameters with the state name left out when an id is given.
StateParamsIdWins(a) ==
    IF a.state_id # Nil THEN ("state_id" :> a.state_id[1])
    ELSE IF a.state # Nil THEN ("state" :> a.state[1]) ELSE << >>

\* Lines 149-154: the update parameters.
StateParams(a) ==
    LET withId == IF a.state_id # Nil THEN ("state_id" :> a.state_id[1]) ELSE << >>
    IN  IF a.state # Nil THEN ("state" :> a.state[1]) @@ withId ELSE withId

set_ticket_state(a, w) ==
    LET conn == init_zammad_client(w)
        params == StateParams(a)
    IN  IF conn.result.status = "raised" THEN conn
        ELSE IF DOMAIN params = {}
        THEN Run(conn.calls, << >>, Raised(Exc("ValueError", NoError)))
        ELSE UpdateTicket(w, a.ticket_id, params, conn.calls)

StateArgs == [ticket_id : TicketIds, state : {Nil, Some("open"), Some("")},
              state_id : {Nil, Some(0), Some(4)}]

SetTicketState ==
    /\ op = "idle"
    /\ \E a \in StateArgs, configured \in BOOLEAN, u \in UpdateWorlds :
         LET w == [configured |-> configured, update |-> u]
             run == set_ticket_state(a, w)
         IN  /\ op' = "set_ticket_state"
             /\ arg' = a
             /\ world' = w
             /\ calls' = run.calls
             /\ attempts' = run.attempts
             /\ result' = run.result
    /\ UNCHANGED <<fs, race>>

----------------------------------------------------------------------------
(* set_ticket_priority                                                     *)

\* Priority names are sequences of letters; str.lower() maps each letter.
Lower(c) == CASE c = "U" -> "u" [] c = "P" -> "p" [] c = "L" -> "l" [] OTHER -> c

LowerName(n) == [i \in 1..Len(n) |-> Lower(n[i])]

PriorityNames == {<<"U", "p">>, <<"u", "p">>, <<"u", "P">>, <<"l", "p">>}

PriorityIds == 1..2

Priorities == [id : PriorityIds, name : PriorityNames]

\* The comparison without lowering either side.
NameMatchesExactly(p, priority_name) == p.name = priority_name

\* str(p.get("name", "")).lower() == str(priority_name).lower()
NameMatches(p, priority_name) == LowerName(p.name) = LowerName(priority_name)

\* Lines 180-183: the id of the first priority whose name matches.
RECURSIVE ResolvePriority(_, _, _)
ResolvePriority(priorities, i, priority_name) ==
    IF i > Len(priorities) THEN Nil
    ELSE IF NameMatches(priorities[i], priority_name) THEN Some(priorities[i].id)
    ELSE ResolvePriority(priorities, i + 1, priority_name)

\* The name resolved whenever a name is given, an id supplied or not.
set_ticket_priority_name_first(a, w) ==
    LET conn == init_zammad_client(w)
    IN  IF conn.result.status = "raised" THEN conn
        ELSE IF a.priority_id = Nil /\ a.priority_name = Nil
        THEN Run(conn.calls, << >>, Raised(Exc("ValueError", NoError)))
        ELSE LET resolving == a.priority_name # Nil
                 listed == resolving /\ ~w.listingRaises
                 got == IF listed THEN _collect_pages(w.chain) ELSE [items |-> << >>, nexts |-> 0]
                 cs == conn.calls
                       \o (IF resolving THEN <<Call("ticket_priority", "all", None)>> ELSE << >>)
                       \o NextPageCalls(got.nexts)
                 priority_id == IF ~resolving THEN a.priority_id
                                ELSE IF w.listingRaises THEN Nil
                                ELSE ResolvePriority(got.items, 1, a.priority_name[1])
             IN  IF priority_id = Nil
                 THEN Run(cs, << >>, Raised(Exc("ValueError", NoError)))
                 ELSE UpdateTicket(w, a.ticket_id, ("priority_id" :> priority_id[1]), cs)

set_ticket_priority(a, w) ==
    LET conn == init_zammad_client(w)
    IN  IF conn.result.status = "raised" THEN conn
        ELSE IF a.priority_id = Nil /\ a.priority_name = Nil
        THEN Run(conn.calls, << >>, Raised(Exc("ValueError", NoError)))
        ELSE LET resolving == a.priority_id = Nil /\ a.priority_name # Nil
                 listed == resolving /\ ~w.listingRaises
                 got == IF listed THEN _collect_pages(w.chain) ELSE [items |-> << >>, nexts |-> 0]
                 cs == conn.calls
                       \o (IF resolving THEN <<Call("ticket_priority", "all", None)>> ELSE << >>)
                       \o NextPageCalls(got.nexts)
                 priority_id == IF ~resolving THEN a.priority_id
                                ELSE IF w.listingRaises THEN Nil
                                ELSE ResolvePriority(got.items, 1, a.priority_name[1])
             IN  IF priority_id = Nil
                 THEN Run(cs, << >>, Raised(Exc("ValueError", NoError)))
                 ELSE UpdateTicket(w, a.ticket_id, ("priority_id" :> priority_id[1]), cs)

PriorityPage(items) == [kind |-> "iter", items |-> items, hasNext |-> TRUE]

\* The priority listings of the backend: up to MaxPriorities priorities on
\* one page, or two priorities on two pages.
PriorityChains ==
    {IF Len(l) = 0 THEN << >> ELSE <<PriorityPage(l)>> : l \in SeqsUpTo(Priorities, MaxPriorities)}
    \cup {<<PriorityPage(<<x>>), PriorityPage(<<y>>)>> : x \in Priorities, y \in Priorities}

PriorityArgs == [ticket_id : {1}, priority_id : {Nil, Some(9)},
                 priority_name : {Nil} \cup {Some(n) : n \in PriorityNames}]

\* The listing is varied only for the calls that list, by name and
\* without an id.
PriorityCases ==
    {c \in PriorityArgs \X [configured : {FALSE}, listingRaises : {FALSE}, chain : {<< >>},
                            update : UpdateWorlds] : c[2].update.update_kw = "truthy"}
    \cup (PriorityArgs \X [configured : {TRUE}, listingRaises : {TRUE}, chain : {<< >>},
                           update : UpdateWorlds])
    \cup ({a \in PriorityArgs : a.priority_id = Nil /\ a.priority_name # Nil}
          \X [configured : {TRUE}, listingRaises : {FALSE}, chain : PriorityChains,
              update : UpdateWorlds])
    \cup ({a \in PriorityArgs : a.priority_id # Nil \/ a.priority_name = Nil}
          \X [configured : {TRUE}, listingRaises : {FALSE}, chain : {<< >>},
              update : UpdateWorlds])

SetTicketPriority ==
    /\ op = "idle"
    /\ \E c \in PriorityCases :
         LET run == set_ticket_priority(c[1], c[2])
         IN  /\ op' = "set_ticket_priority"
             /\ arg' = c[1]
             /\ world' = c[2]
             /\ calls' = run.calls
             /\ attempts' = run.attempts
             /\ result' = run.result
    /\ UNCHANGED <<fs, race>>

----------------------------------------------------------------------------
(* list_article_attachments                                                *)

\* An attachment record, and a bare value standing where a record could.
AttRecord(id, filename) == [kind |-> "dict", id |-> id, filename |-> filename]
Scalar(v) == [kind |-> "scalar", id |-> v, filename |-> << >>]

\* {"id": v, "filename": f"attachment_{v}"}
Synthesized(v) == AttRecord(v.id, <<"attachment_", v.id>>)

AttA == AttRecord(1, <<"a.png">>)
AttB == AttRecord(2, <<"b.png">>)

\* The value of a field of an article: a list, or a truthy value of another
\* type.  A missing field is a key outside the DOMAIN of the fields.
ListValue(vals) == [kind |-> "list", vals |-> vals]
OtherValue == [kind |-> "other", vals |-> << >>]

FieldTruthy(fields, key) ==
    key \in DOMAIN fields /\ (fields[key].kind = "other" \/ Len(fields[key].vals) > 0)

\* What ticket_article.find answers: it raises, returns None, returns an
\* object that is not a dict, or returns a dict.
FindRaises == [kind |-> "raise", fields |-> << >>]
FindNone == [kind |-> "none", fields |-> << >>]
FindObject == [kind |-> "object", fields |-> << >>]
FindDict(fields) == [kind |-> "dict", fields |-> fields]

\* Every value kept as it is, structured or not.
KeepAll(vals) == vals

\* Lines 244-249: structured records kept, other values wrapped.
Normalize(vals) ==
    [i \in 1..Len(vals) |-> IF vals[i].kind = "dict" THEN vals[i] ELSE Synthesized(vals[i])]

LegacyKeys == <<"attachment_ids", "attachments_ids", "attachments">>

\* Lines 240-250: the first legacy field holding a non-empty list decides.
RECURSIVE InspectLegacy(_, _)
InspectLegacy(fields, k) ==
    IF k > Len(LegacyKeys) THEN Nil
    ELSE IF FieldTruthy(fields, LegacyKeys[k]) /\ fields[LegacyKeys[k]].kind = "list"
    THEN Some(Normalize(fields[LegacyKeys[k]].vals))
    ELSE InspectLegacy(fields, k + 1)

\* Lines 236-254: the last resort.
AttachmentsById(a, w, cs) ==
    LET cs3 == Append(cs, Call("ticket_article.find", "find_pos", [id |-> a.article_id]))
        found == IF w.find2.kind = "dict" THEN InspectLegacy(w.find2.fields, 1) ELSE Nil
    IN  IF found # Nil THEN Run(cs3, << >>, Returned(found[1]))
        ELSE Run(cs3, << >>, Returned(<< >>))

\* The listing endpoint without the enclosing try: an error of the keyword
\* call other than TypeError leaves the function.
AttachmentsByEndpointUnguarded(a, w, cs) ==
    IF ~w.hasAttachmentEndpoint THEN AttachmentsById(a, w, cs)
    ELSE LET kw == Call("ticket_article_attachment.all", "all_kw",
                        [ticket_id |-> a.ticket_id, article_id |-> a.article_id])
             pos == Call("ticket_article_attachment.all", "all_pos",
                         [ticket_id |-> a.ticket_id, article_id |-> a.article_id])
             cs2 == IF w.allKw = "TypeError" THEN cs \o <<kw, pos>> ELSE Append(cs, kw)
             paged == \/ w.allKw = "page"
                      \/ w.allKw = "TypeError" /\ w.allPos = "page"
         IN  IF w.allKw = "Error"
             THEN Run(cs2, << >>, Raised(Exc("Error", CallError("Error", "all_kw"))))
             ELSE IF paged /\ Truthy(w.attChain, 1)
             THEN LET got == _collect_pages(w.attChain)
                  IN  Run(cs2 \o NextPageCalls(got.nexts), << >>, Returned(got.items))
             ELSE AttachmentsById(a, w, cs2)

\* Lines 216-234: the dedicated listing endpoint.
AttachmentsByEndpoint(a, w, cs) ==
    IF ~w.hasAttachmentEndpoint THEN AttachmentsById(a, w, cs)
    ELSE LET kw == Call("ticket_article_attachment.all", "all_kw",
                        [ticket_id |-> a.ticket_id, article_id |-> a.article_id])
             pos == Call("ticket_article_attachment.all", "all_pos",
                         [ticket_id |-> a.ticket_id, article_id |-> a.article_id])
             cs2 == IF w.allKw = "TypeError" THEN cs \o <<kw, pos>> ELSE Append(cs, kw)
             paged == \/ w.allKw = "page"
                      \/ w.allKw = "TypeError" /\ w.allPos = "page"
         IN  IF paged /\ Truthy(w.attChain, 1)
             THEN LET got == _collect_pages(w.attChain)
                  IN  Run(cs2 \o NextPageCalls(got.nexts), << >>, Returned(got.items))
             ELSE AttachmentsById(a, w, cs2)

\* The discovery that never looks at the embedded list.
list_article_attachments_skip_embedded(a, w) ==
    LET conn == init_zammad_client(w)
        cs1 == Append(conn.calls, Call("ticket_article.find", "find_kw",
                                       [ticket_id |-> a.ticket_id, id |-> a.article_id]))
    IN  IF conn.result.status = "raised" THEN conn
        ELSE AttachmentsByEndpoint(a, w, cs1)

list_article_attachments(a, w) ==
    LET conn == init_zammad_client(w)
        cs1 == Append(conn.calls, Call("ticket_article.find", "find_kw",
                                       [ticket_id |-> a.ticket_id, id |-> a.article_id]))
    IN  IF conn.result.status = "raised" THEN conn
        ELSE IF w.find1.kind = "dict" /\ FieldTruthy(w.find1.fields, "attachments")
        THEN Run(cs1, << >>, Returned(w.find1.fields["attachments"].vals))
        ELSE AttachmentsByEndpoint(a, w, cs1)

\* The embedded lists, the pages of the listing endpoint and the legacy
\* fields the backend can serve.
EmbeddedLists == {<<AttA>>, <<AttB, AttA>>}

Find1Empty == {FindRaises, FindNone, FindObject, FindDict(<< >>),
               FindDict("attachments" :> ListValue(<< >>))}
Find1Embedded == {FindDict("attachments" :> ListValue(l)) : l \in EmbeddedLists}

AttPage(items, hasNext) == [kind |-> "iter", items |-> items, hasNext |-> hasNext]

AttChains == {<< >>, <<AttPage(<<AttB>>, FALSE)>>,
              <<AttPage(<<AttA, AttB>>, TRUE)>>,
              <<AttPage(<<AttB>>, TRUE), AttPage(<<AttA>>, TRUE)>>}

\* How the listing endpoint answers: absent, or its keyword call ends in
\* one of three ways and its positional call in one of two.
Endpoints ==
    {[hasAttachmentEndpoint |-> FALSE, allKw |-> "Error", allPos |-> "Error", attChain |-> << >>]}
    \cup {[hasAttachmentEndpoint |-> TRUE, allKw |-> "Error", allPos |-> "Error", attChain |-> << >>]}
    \cup {[hasAttachmentEndpoint |-> TRUE, allKw |-> "TypeError", allPos |-> "Error",
           attChain |-> << >>]}
    \cup [hasAttachmentEndpoint : {TRUE}, allKw : {"page"}, allPos : {"Error"},
          attChain : AttChains]
    \cup [hasAttachmentEndpoint : {TRUE}, allKw : {"TypeError"}, allPos : {"page"},
          attChain : AttChains]

LegacyValues == {ListValue(<< >>), OtherValue, ListValue(<<Scalar(7), AttB>>),
                 ListValue(<<AttA, Scalar(8)>>)}

LegacyFields ==
    UNION {[K -> LegacyValues] : K \in SUBSET Range(LegacyKeys)}

Find2s == {FindRaises, FindObject} \cup {FindDict(f) : f \in LegacyFields}

AttachmentWorlds ==
    {[configured |-> FALSE, find1 |-> FindRaises, find2 |-> FindRaises] @@ e :
        e \in {x \in Endpoints : ~x.hasAttachmentEndpoint}}
    \cup {[configured |-> TRUE, find1 |-> f1, find2 |-> f2] @@ e :
            f1 \in Find1Embedded, f2 \in {FindRaises, FindDict("attachments" :> ListValue(<<AttB>>))},
            e \in Endpoints}
    \cup {[configured |-> TRUE, find1 |-> f1, find2 |-> f2] @@ e :
            f1 \in Find1Empty, f2 \in Find2s, e \in Endpoints}

AttachmentArgs == [ticket_id : {1}, article_id : {1}]

ListArticleAttachments ==
    /\ op = "idle"
    /\ \E a \in AttachmentArgs, w \in AttachmentWorlds :
         LET run == list_article_attachments(a, w)
         IN  /\ op' = "list_article_attachments"
             /\ arg' = a
             /\ world' = w
             /\ calls' = run.calls
             /\ attempts' = run.attempts
             /\ result' = run.result
    /\ UNCHANGED <<fs, race>>

----------------------------------------------------------------------------
(* get_ticket, get_all_articles, get_ticket_articles, get_ticket_details   *)

ArticleIds == 1..2

Articles == [id : ArticleIds, ticket_id : TicketIds]

BackendTicket(ticket_id) == [id |-> ticket_id, title |-> "printer on fire"]

\* {"id": ticket_id, "error": str(e)}
Placeholder(ticket_id, e) == [id |-> ticket_id, error |-> e.type]

get_ticket(ticket_id, w) ==
    LET conn == init_zammad_client(w)
        cs == Append(conn.calls, Call("ticket.find", "find", [id |-> ticket_id]))
    IN  IF conn.result.status = "raised" THEN conn
        ELSE IF w.ticketFind = "ok" THEN Run(cs, << >>, Returned(BackendTicket(ticket_id)))
        ELSE Run(cs, << >>, Raised(Exc(w.ticketFind, CallError(w.ticketFind, "find"))))

ArticleAllCall == Call("ticket_article", "all", None)

\* The articles of every ticket, unfiltered.
OfAnyTicket(articles, ticket_id) == articles

\* [a for a in all_articles if a.get("ticket_id") == ticket_id]
OfTicket(articles, ticket_id) == SelectSeq(articles, LAMBDA a : a.ticket_id = ticket_id)

\* The k-th call of client.ticket_article.all() of the invocation ends as
\* w.articleAll[k] says.
get_all_articles(w, k) ==
    LET conn == init_zammad_client(w)
        cs == Append(conn.calls, ArticleAllCall)
    IN  IF conn.result.status = "raised" THEN conn
        ELSE IF w.articleAll[k] # "page"
        THEN Run(cs, << >>, Raised(Exc(w.articleAll[k], CallError(w.articleAll[k], "all"))))
        ELSE LET got == _collect_pages(w.chain)
             IN  Run(cs \o NextPageCalls(got.nexts), << >>, Returned(got.items))

get_ticket_articles(ticket_id, w, k) ==
    LET conn == init_zammad_client(w)
        retried == w.articleAll[k] = "TypeError"
        last == IF retried THEN k + 1 ELSE k
        cs == conn.calls \o (IF retried THEN <<ArticleAllCall, ArticleAllCall>>
                             ELSE <<ArticleAllCall>>)
    IN  IF conn.result.status = "raised" THEN conn
        ELSE IF w.articleAll[last] # "page"
        THEN Run(cs, << >>, Raised(Exc(w.articleAll[last], CallError(w.articleAll[last], "all"))))
        ELSE LET got == _collect_pages(w.chain)
             IN  Run(cs \o NextPageCalls(got.nexts), << >>,
                     Returned(OfTicket(got.items, ticket_id)))

\* Lines 120-129: the articles of the ticket, with the calls made for them.
DetailArticles(ticket_id, w) ==
    LET all == get_all_articles(w, 1)
        scoped == get_ticket_articles(ticket_id, w, 2)
    IN  IF all.result.status = "returned"
        THEN [calls |-> all.calls, articles |-> OfTicket(all.result.value, ticket_id)]
        ELSE IF scoped.result.status = "returned"
        THEN [calls |-> all.calls \o scoped.calls, articles |-> scoped.result.value]
        ELSE [calls |-> all.calls \o scoped.calls, articles |-> << >>]

\* The discovery run for one article of the detail view; it builds its own
\* client, which can fail for one article and not for another.
Discovery(ticket_id, art, w) ==
    list_article_attachments([ticket_id |-> ticket_id, article_id |-> art.id], w.att[art.id])

\* The loop left at the first discovery that raises.
RECURSIVE DetailAttachmentsUntilFailure(_, _, _, _, _, _)
DetailAttachmentsUntilFailure(ticket_id, articles, i, w, cs, attachments_map) ==
    IF i > Len(articles) THEN [calls |-> cs, attachments |-> attachments_map]
    ELSE LET run == Discovery(ticket_id, articles[i], w)
         IN  IF run.result.status = "returned"
             THEN DetailAttachmentsUntilFailure(ticket_id, articles, i + 1, w, cs \o run.calls,
                                                (articles[i].id :> run.result.value)
                                                    @@ attachments_map)
             ELSE [calls |-> cs \o run.calls,
                   attachments |-> (articles[i].id :> << >>) @@ attachments_map]

\* Lines 131-139: the attachments of every article, and the calls made.
RECURSIVE DetailAttachments(_, _, _, _, _, _)
DetailAttachments(ticket_id, articles, i, w, cs, attachments_map) ==
    IF i > Len(articles) THEN [calls |-> cs, attachments |-> attachments_map]
    ELSE LET run == Discovery(ticket_id, articles[i], w)
             atts == IF run.result.status = "returned" THEN run.result.value ELSE << >>
         IN  DetailAttachments(ticket_id, articles, i + 1, w, cs \o run.calls,
                               (articles[i].id :> atts) @@ attachments_map)

\* The detail view without a client of its own: only the operations it
\* delegates to build one.
get_ticket_details_no_own_client(a, w) ==
    LET conn == init_zammad_client(w)
        fetched == get_ticket(a.ticket_id, w)
        ticket == IF fetched.result.status = "returned" THEN fetched.result.value
                  ELSE Placeholder(a.ticket_id, fetched.result.error)
        arts == DetailArticles(a.ticket_id, w)
        cs == fetched.calls \o arts.calls
        atts == IF a.include_attachments
                THEN DetailAttachments(a.ticket_id, arts.articles, 1, w, cs, << >>)
                ELSE [calls |-> cs, attachments |-> << >>]
    IN  IF conn.result.status = "raised" THEN conn
        ELSE Run(atts.calls, << >>,
                 Returned([ticket |-> ticket, articles |-> arts.articles,
                           attachments |-> atts.attachments]))

\* Lines 113-141: the client of line 113, the ticket, the articles and the
\* attachments.
get_ticket_details(a, w) ==
    LET conn == init_zammad_client(w)
        fetched == get_ticket(a.ticket_id, w)
        ticket == IF fetched.result.status = "returned" THEN fetched.result.value
                  ELSE Placeholder(a.ticket_id, fetched.result.error)
        arts == DetailArticles(a.ticket_id, w)
        cs == conn.calls \o fetched.calls \o arts.calls
        atts == IF a.include_attachments
                THEN DetailAttachments(a.ticket_id, arts.articles, 1, w, cs, << >>)
                ELSE [calls |-> cs, attachments |-> << >>]
    IN  IF conn.result.status = "raised" THEN conn
        ELSE Run(atts.calls, << >>,
                 Returned([ticket |-> ticket, articles |-> arts.articles,
                           attachments |-> atts.attachments]))

\* The article collections of the backend: up to MaxArticles articles on
\* one page, or two articles on two pages.
ArticlePage(items) == [kind |-> "iter", items |-> items, hasNext |-> TRUE]

ArticleChains ==
    {IF Len(l) = 0 THEN << >> ELSE <<ArticlePage(l)>> : l \in SeqsUpTo(Articles, MaxArticles)}
    \cup {<<ArticlePage(<<x>>), ArticlePage(<<y>>)>> : x \in Articles, y \in Articles}

\* How the successive calls of ticket_article.all() end; a call that is
\* never made is listed as "page".
ArticleAlls ==
    {<<"page", "page", "page">>}
    \cup {<<f, s, "page">> : f \in {"TypeError", "Error"}, s \in {"page", "Error"}}
    \cup {<<f, "TypeError", t>> : f \in {"TypeError", "Error"}, t \in {"page", "Error"}}

\* What the discovery meets for one article.
DetailDiscoveries ==
    {[configured |-> TRUE,
      find1 |-> FindDict("attachments" :> ListValue(<<AttA>>)), find2 |-> FindRaises,
      hasAttachmentEndpoint |-> FALSE, allKw |-> "Error", allPos |-> "Error",
      attChain |-> << >>],
     [configured |-> TRUE, find1 |-> FindRaises, find2 |-> FindRaises,
      hasAttachmentEndpoint |-> TRUE, allKw |-> "Error", allPos |-> "Error",
      attChain |-> << >>],
     [configured |-> FALSE,
      find1 |-> FindDict("attachments" :> ListValue(<<AttB>>)), find2 |-> FindRaises,
      hasAttachmentEndpoint |-> FALSE, allKw |-> "Error", allPos |-> "Error",
      attChain |-> << >>]}

DetailArgs == [ticket_id : {1}, include_attachments : BOOLEAN]

DetailFetches == [configured : {TRUE}, ticketFind : {"ok", "Error"}, articleAll : ArticleAlls,
                  chain : ArticleChains]

\* The discoveries are varied only when the attachments are asked for, and
\* the backend only when a client can be built.
DetailCases ==
    {<<a, [configured |-> FALSE, ticketFind |-> "ok", articleAll |-> <<"page", "page", "page">>,
           chain |-> << >>, att |-> [i \in ArticleIds |-> CHOOSE d \in DetailDiscoveries : TRUE]]>> :
        a \in DetailArgs}
    \cup {<<a, f @@ [att |-> d]>> :
            a \in {x \in DetailArgs : x.include_attachments}, f \in DetailFetches,
            d \in [ArticleIds -> DetailDiscoveries]}
    \cup {<<a, f @@ [att |-> [i \in ArticleIds |-> CHOOSE d \in DetailDiscoveries : TRUE]]>> :
            a \in {x \in DetailArgs : ~x.include_attachments}, f \in DetailFetches}

GetTicketDetails ==
    /\ op = "idle"
    /\ \E c \in DetailCases :
         LET run == get_ticket_details(c[1], c[2])
         IN  /\ op' = "get_ticket_details"
             /\ arg' = c[1]
             /\ world' = c[2]
             /\ calls' = run.calls
             /\ attempts' = run.attempts
             /\ result' = run.result
    /\ UNCHANGED <<fs, race>>

----------------------------------------------------------------------------
(* download_attachment                                                     *)

\* base64.b64decode as line 299 calls it (no validation): characters outside
\* the alphabet are skipped, a pad that completes a quad ends the input, and
\* an incomplete quad at the end is an error.  A text is a sequence of
\* characters; only the characters below occur.
B64Value(c) ==
    CASE c = "A" -> 0 [] c = "G" -> 6 [] c = "Q" -> 16 [] c = "a" -> 26 [] c = "b" -> 27
      [] c = "e" -> 30 [] c = "k" -> 36 [] c = "n" -> 39 [] c = "o" -> 40 [] c = "s" -> 44
      [] c = "t" -> 45 [] c = "4" -> 56 [] c = "6" -> 58
      [] OTHER -> 64

RECURSIVE B64Loop(_, _, _, _, _, _)
B64Loop(chars, i, quad_pos, leftchar, pads, out) ==
    IF i > Len(chars) THEN [ok |-> quad_pos = 0, bytes |-> out]
    ELSE LET c == chars[i]
             v == B64Value(c)
         IN  IF c = "="
             THEN IF quad_pos >= 2 /\ quad_pos + pads + 1 >= 4
                  THEN [ok |-> TRUE, bytes |-> out]
                  ELSE B64Loop(chars, i + 1, quad_pos, leftchar,
                               IF quad_pos >= 2 THEN pads + 1 ELSE pads, out)
             ELSE IF v >= 64 THEN B64Loop(chars, i + 1, quad_pos, leftchar, pads, out)
             ELSE CASE quad_pos = 0 -> B64Loop(chars, i + 1, 1, v, 0, out)
                    [] quad_pos = 1 ->
                         B64Loop(chars, i + 1, 2, v % 16, 0,
                                 Append(out, (leftchar * 4 + v \div 16) % 256))
                    [] quad_pos = 2 ->
                         B64Loop(chars, i + 1, 3, v % 4, 0,
                                 Append(out, (leftchar * 16 + v \div 4) % 256))
                    [] OTHER ->
                         B64Loop(chars, i + 1, 0, 0, 0,
                                 Append(out, (leftchar * 64 + v) % 256))

\* A value of an int is no text at all: b64decode raises TypeError.
b64decode(d) ==
    IF d.kind = "int" THEN [ok |-> FALSE, bytes |-> << >>]
    ELSE B64Loop(d.chars, 1, 0, 0, 0, << >>)

\* The fields of a response the normalization looks at.  `data` is absent,
\* a text, a byte string or a number; `file` is absent, a byte string or a
\* text; `extra` tells whether the response holds another field, and of
\* which type.
NoData == [kind |-> "absent", chars |-> << >>]
TextData(chars) == [kind |-> "str", chars |-> chars]
BytesData(chars) == [kind |-> "bytes", chars |-> chars]
IntData == [kind |-> "int", chars |-> << >>]

NoFile == [kind |-> "absent", bytes |-> << >>]
BytesFile(b) == [kind |-> "bytes", bytes |-> b]
TextFile == [kind |-> "str", bytes |-> << >>]

Resp(kind, bytes, data, file, extra) ==
    [kind |-> kind, bytes |-> bytes, data |-> data, file |-> file, extra |-> extra]

NoResp == Resp("none", << >>, NoData, NoFile, "none")
BytesResp(b) == Resp("bytes", b, NoData, NoFile, "none")
DictResp(data, file, extra) == Resp("dict", << >>, data, file, extra)
ReaderResp(b) == Resp("reader", b, NoData, NoFile, "none")
ListResp == Resp("other", << >>, NoData, NoFile, "str")
ObjectResp == Resp("other", << >>, NoData, NoFile, "object")

\* json.dumps raises TypeError on a byte string or an arbitrary object.
Serializable(resp) ==
    /\ resp.data.kind # "bytes"
    /\ resp.file.kind # "bytes"
    /\ resp.extra \notin {"bytes", "object"}

\* What is written to the file: bytes, or the JSON text of a response.
RawBytes(b) == [kind |-> "bytes", bytes |-> b, json |-> NoResp]
JsonOf(resp) == [kind |-> "json", bytes |-> << >>, json |-> resp]
Absent == [kind |-> "absent", bytes |-> << >>, json |-> NoResp]

Extracted(content) == [ok |-> TRUE, data |-> content]
DumpsRaises == [ok |-> FALSE, data |-> Absent]

\* json.dumps(resp).encode()
Dumps(resp) == IF Serializable(resp) THEN Extracted(JsonOf(resp)) ELSE DumpsRaises

\* Lines 292-312: the bytes of a response, or the TypeError of json.dumps.
ExtractBytes(resp) ==
    CASE resp.kind = "bytes" -> Extracted(RawBytes(resp.bytes))
      [] resp.kind = "dict" ->
           IF resp.data.kind # "absent"
           THEN IF b64decode(resp.data).ok
                THEN Extracted(RawBytes(b64decode(resp.data).bytes))
                ELSE Dumps(resp)
           ELSE IF resp.file.kind = "bytes" THEN Extracted(RawBytes(resp.file.bytes))
           ELSE Dumps(resp)
      [] resp.kind = "reader" -> Extracted(RawBytes(resp.bytes))
      [] OTHER -> IF Serializable(resp) THEN Dumps(resp) ELSE Extracted(RawBytes(<< >>))

\* The call shapes of lines 271-279, in the order they are appended.
CollectionShapes == <<"download_collection_kw", "download_collection_pos">>
GenericShapes == <<"download_generic_kw", "download_generic_pos">>
FallbackShapes == <<"download_fallback">>
DownloadShapes == CollectionShapes \o GenericShapes \o FallbackShapes

\* The candidate list with the generic shapes tried before the collection.
DownloadCallersGenericFirst(w) ==
    (IF w.hasGeneric THEN GenericShapes ELSE << >>)
    \o (IF w.hasCollection THEN CollectionShapes ELSE << >>)
    \o FallbackShapes

\* Lines 270-279: the candidate list built for this client.
DownloadCallers(w) ==
    (IF w.hasCollection THEN CollectionShapes ELSE << >>)
    \o (IF w.hasGeneric THEN GenericShapes ELSE << >>)
    \o FallbackShapes

\* Invoking one candidate.  The fallback is
\* `getattr(client, "download", lambda *a, **k: None)()`: without a download
\* method it returns None and calls nothing.
DownloadInvoke(shape, w, a) ==
    IF shape \in Range(FallbackShapes) /\ ~w.hasDownload
    THEN [calls |-> << >>, outcome |-> "falsy"]
    ELSE [calls |-> <<Call("download", shape, [id |-> a.attachment_id])>>,
          outcome |-> w.outcome[shape]]

\* The loop keeping the first error instead of the last one.
RECURSIVE DownloadLoopFirstError(_, _, _, _, _, _, _)
DownloadLoopFirstError(callers, i, w, a, cs, as, last_error) ==
    IF i > Len(callers)
    THEN [calls |-> cs, attempts |-> as, resp |-> NoResp, last_error |-> last_error]
    ELSE LET c == callers[i]
             inv == DownloadInvoke(c, w, a)
             cs2 == cs \o inv.calls
             as2 == Append(as, c)
         IN  CASE inv.outcome = "truthy" ->
                    [calls |-> cs2, attempts |-> as2, resp |-> w.resp, last_error |-> last_error]
               [] inv.outcome = "falsy" ->
                    DownloadLoopFirstError(callers, i + 1, w, a, cs2, as2, last_error)
               [] OTHER ->
                    DownloadLoopFirstError(callers, i + 1, w, a, cs2, as2,
                                           IF last_error = NoError
                                           THEN CallError(inv.outcome, c) ELSE last_error)

\* Lines 281-287: the probing loop, from candidate i on.
RECURSIVE DownloadLoop(_, _, _, _, _, _, _)
DownloadLoop(callers, i, w, a, cs, as, last_error) ==
    IF i > Len(callers)
    THEN [calls |-> cs, attempts |-> as, resp |-> NoResp, last_error |-> last_error]
    ELSE LET c == callers[i]
             inv == DownloadInvoke(c, w, a)
             cs2 == cs \o inv.calls
             as2 == Append(as, c)
         IN  CASE inv.outcome = "truthy" ->
                    [calls |-> cs2, attempts |-> as2, resp |-> w.resp, last_error |-> last_error]
               [] inv.outcome = "falsy" ->
                    DownloadLoop(callers, i + 1, w, a, cs2, as2, last_error)
               [] OTHER ->
                    DownloadLoop(callers, i + 1, w, a, cs2, as2, CallError(inv.outcome, c))

\* The destination: whether its parent directory exists and what the file
\* holds.
NoFiles == [dir |-> FALSE, file |-> Absent]

\* Lines 314-316: mkdir(parents=True, exist_ok=True), open "wb", write.
WriteFile(files, data) == [dir |-> TRUE, file |-> data]

\* The destination directory made before the candidates are probed.
download_attachment_mkdir_first(a, w, files) ==
    LET conn == init_zammad_client(w)
        probed == DownloadLoop(DownloadCallers(w), 1, w, a, conn.calls, << >>, NoError)
        extracted == ExtractBytes(probed.resp)
    IN  IF conn.result.status = "raised" THEN [run |-> conn, files |-> files]
        ELSE IF probed.resp.kind = "none"
        THEN [run |-> Run(probed.calls, probed.attempts,
                          Raised(Exc("RuntimeError", probed.last_error))),
              files |-> [files EXCEPT !.dir = TRUE]]
        ELSE IF ~extracted.ok
        THEN [run |-> Run(probed.calls, probed.attempts, Raised(Exc("TypeError", NoError))),
              files |-> [files EXCEPT !.dir = TRUE]]
        ELSE [run |-> Run(probed.calls, probed.attempts, Returned(a.dest_path)),
              files |-> WriteFile(files, extracted.data)]

\* The run of download_attachment and the files it leaves.
download_attachment(a, w, files) ==
    LET conn == init_zammad_client(w)
        probed == DownloadLoop(DownloadCallers(w), 1, w, a, conn.calls, << >>, NoError)
        extracted == ExtractBytes(probed.resp)
    IN  IF conn.result.status = "raised" THEN [run |-> conn, files |-> files]
        ELSE IF probed.resp.kind = "none"
        THEN [run |-> Run(probed.calls, probed.attempts,
                          Raised(Exc("RuntimeError", probed.last_error))),
              files |-> files]
        ELSE IF ~extracted.ok
        THEN [run |-> Run(probed.calls, probed.attempts, Raised(Exc("TypeError", NoError))),
              files |-> files]
        ELSE [run |-> Run(probed.calls, probed.attempts, Returned(a.dest_path)),
              files |-> WriteFile(files, extracted.data)]

\* The truthy responses a backend serves.
Hi == <<104, 105>>

Responses ==
    {BytesResp(Hi),
     DictResp(TextData(<<"a", "G", "k", "=">>), NoFile, "none"),
     DictResp(TextData(<<"a", "G", "!", "k", "=">>), NoFile, "str"),
     DictResp(TextData(<<"a", "Q", "=", "=">>), BytesFile(Hi), "none"),
     DictResp(TextData(<<"n", "o", "t", "-", "b", "a", "s", "e", "6", "4", "!", "!">>),
              NoFile, "none"),
     DictResp(TextData(<<"a">>), NoFile, "bytes"),
     DictResp(BytesData(<<"a", "G", "k">>), NoFile, "none"),
     DictResp(IntData, NoFile, "str"),
     DictResp(NoData, BytesFile(Hi), "none"),
     DictResp(NoData, TextFile, "str"),
     DictResp(NoData, NoFile, "bytes"),
     ReaderResp(Hi), ListResp, ObjectResp}

DownloadOutcomes == {"Error", "falsy", "truthy"}

\* Only the outcomes of the calls the client can receive are varied, and the
\* response only when some call returns it.
DownloadOutcomeSets(hc, hg, hd) ==
    {f \in [Range(DownloadShapes) -> DownloadOutcomes] :
       /\ ~hc => \A s \in Range(CollectionShapes) : f[s] = "falsy"
       /\ ~hg => \A s \in Range(GenericShapes) : f[s] = "falsy"
       /\ ~hd => \A s \in Range(FallbackShapes) : f[s] = "falsy"}

DownloadWorlds ==
    {[configured |-> FALSE, hasCollection |-> FALSE, hasGeneric |-> FALSE,
      hasDownload |-> FALSE, outcome |-> [s \in Range(DownloadShapes) |-> "falsy"],
      resp |-> NoResp]}
    \cup UNION {{[configured |-> TRUE, hasCollection |-> h[1], hasGeneric |-> h[2],
                  hasDownload |-> h[3], outcome |-> o, resp |-> r] :
                    o \in {f \in DownloadOutcomeSets(h[1], h[2], h[3]) :
                             \E s \in DOMAIN f : f[s] = "truthy"},
                    r \in Responses}
                \cup {[configured |-> TRUE, hasCollection |-> h[1], hasGeneric |-> h[2],
                       hasDownload |-> h[3], outcome |-> o, resp |-> NoResp] :
                         o \in {f \in DownloadOutcomeSets(h[1], h[2], h[3]) :
                                  \A s \in DOMAIN f : f[s] # "truthy"}} :
                h \in BOOLEAN \X BOOLEAN \X BOOLEAN}

DownloadArgs == [attachment_id : {1}, ticket_id : {1}, article_id : {1},
                 dest_path : {"downloads/a.bin"}]

DownloadAttachment ==
    /\ op = "idle"
    /\ \E a \in DownloadArgs, w \in DownloadWorlds :
         LET done == download_attachment(a, w, fs)
         IN  /\ op' = "download_attachment"
             /\ arg' = a
             /\ world' = w
             /\ calls' = done.run.calls
             /\ attempts' = done.run.attempts
             /\ result' = done.run.result
             /\ fs' = done.files
    /\ UNCHANGED race

----------------------------------------------------------------------------
(* Two callers downloading to the same destination at the same time.  Each *)
(* runs lines 314-316 step by step: mkdir, open "wb", write, close.        *)

Downloaders == 1..2

\* The position of each download in lines 314-316, the bytes it writes,
\* whether its file object buffers them, and the download that wrote last.
NoRace == [pc |-> [p \in Downloaders |-> "idle"], data |-> [p \in Downloaders |-> << >>],
           buffered |-> [p \in Downloaders |-> FALSE], last |-> 0]

\* The backends of the two callers: the first candidate answers, with a
\* response that normalizes to bytes.
RaceWorlds ==
    {w \in DownloadWorlds :
        /\ w.configured /\ w.hasCollection /\ ~w.hasGeneric /\ ~w.hasDownload
        /\ w.outcome["download_collection_kw"] = "truthy"
        /\ w.outcome["download_collection_pos"] = "falsy"
        /\ ExtractBytes(w.resp).ok
        /\ ExtractBytes(w.resp).data.kind = "bytes"}

\* Lines 281-312 of one caller: the bytes it is going to write.
RaceData(a, w) ==
    ExtractBytes(DownloadLoop(DownloadCallers(w), 1, w, a, <<ConnectCall>>, << >>,
                              NoError).resp).data.bytes

\* A write that lands behind what the file already holds.
WriteAtEnd(content, data) == content \o data

\* write(2) at offset 0 of a file opened without O_APPEND: the bytes replace
\* those at the same positions and what lies behind them stays.
WriteAtStart(content, data) == data \o SubSeq(content, Len(data) + 1, Len(content))

\* Both callers have a response and are about to touch the filesystem.
\* f.write hands the bytes to the file at once when they exceed the buffer
\* of the file object and at close otherwise.
StartDownloads ==
    /\ op = "idle"
    /\ race = NoRace
    /\ \E a \in DownloadArgs, w1 \in RaceWorlds, w2 \in RaceWorlds,
           b \in [Downloaders -> BOOLEAN] :
         race' = [pc |-> [p \in Downloaders |-> "mkdir"],
                  data |-> [p \in Downloaders |-> RaceData(a, IF p = 1 THEN w1 ELSE w2)],
                  buffered |-> b, last |-> 0]
    /\ UNCHANGED <<op, arg, world, calls, attempts, result, fs>>

\* dest_path.parent.mkdir(parents=True, exist_ok=True)
Mkdir(p) ==
    /\ race.pc[p] = "mkdir"
    /\ fs' = [fs EXCEPT !.dir = TRUE]
    /\ race' = [race EXCEPT !.pc[p] = "open"]
    /\ UNCHANGED <<op, arg, world, calls, attempts, result>>

\* open(dest_path, "wb"): the file is created or truncated.
OpenTruncate(p) ==
    /\ race.pc[p] = "open"
    /\ fs.dir
    /\ fs' = [fs EXCEPT !.file = RawBytes(<< >>)]
    /\ race' = [race EXCEPT !.pc[p] = "write"]
    /\ UNCHANGED <<op, arg, world, calls, attempts, result>>

\* f.write(data)
Write(p) ==
    /\ race.pc[p] = "write"
    /\ IF race.buffered[p]
       THEN /\ fs' = fs
            /\ race' = [race EXCEPT !.pc[p] = "close"]
       ELSE /\ fs' = [fs EXCEPT !.file = RawBytes(WriteAtStart(fs.file.bytes, race.data[p]))]
            /\ race' = [race EXCEPT !.pc[p] = "close", !.last = p]
    /\ UNCHANGED <<op, arg, world, calls, attempts, result>>

\* The end of the `with` block: buffered bytes are flushed, the file closed.
Close(p) ==
    /\ race.pc[p] = "close"
    /\ IF race.buffered[p]
       THEN /\ fs' = [fs EXCEPT !.file = RawBytes(WriteAtStart(fs.file.bytes, race.data[p]))]
            /\ race' = [race EXCEPT !.pc[p] = "done", !.last = p]
       ELSE /\ fs' = fs
            /\ race' = [race EXCEPT !.pc[p] = "done"]
    /\ UNCHANGED <<op, arg, world, calls, attempts, result>>

\* Both callers have their destination path back.
FinishDownloads ==
    /\ \A p \in Downloaders : race.pc[p] = "done"
    /\ race' = NoRace
    /\ UNCHANGED <<op, arg, world, calls, attempts, result, fs>>

----------------------------------------------------------------------------
(* create_ticket                                                           *)

TicketData == {<< >>, [title |-> "printer on fire"]}

CreateWorlds ==
    {[create_kw |-> k, create_pos |-> "truthy"] : k \in {"Error", "truthy"}}
    \cup {[create_kw |-> "TypeError", create_pos |-> q] : q \in UpdateOutcomes}

CreateCall(shape, ticket_data) == Call("ticket.create", shape, [params |-> ticket_data])

CreatedTicket(ticket_data) == [record |-> "Ticket", fields |-> ticket_data]

\* The positional call made after every error of the keyword call.
create_ticket_any_error(a, w) ==
    LET conn == init_zammad_client(w)
        kw == CreateCall("create_kw", a.ticket_data)
        pos == CreateCall("create_pos", a.ticket_data)
    IN  IF conn.result.status = "raised" THEN conn
        ELSE IF w.create.create_kw = "truthy"
        THEN Run(Append(conn.calls, kw), << >>, Returned(CreatedTicket(a.ticket_data)))
        ELSE IF w.create.create_pos = "truthy"
        THEN Run(conn.calls \o <<kw, pos>>, << >>, Returned(CreatedTicket(a.ticket_data)))
        ELSE Run(conn.calls \o <<kw, pos>>, << >>,
                 Raised(Exc(w.create.create_pos, CallError(w.create.create_pos, "create_pos"))))

\* try: return client.ticket.create(params=ticket_data)
\* except TypeError: return client.ticket.create(ticket_data)
create_ticket(a, w) ==
    LET conn == init_zammad_client(w)
        kw == CreateCall("create_kw", a.ticket_data)
        pos == CreateCall("create_pos", a.ticket_data)
    IN  IF conn.result.status = "raised" THEN conn
        ELSE CASE w.create.create_kw = "truthy" ->
                    Run(Append(conn.calls, kw), << >>, Returned(CreatedTicket(a.ticket_data)))
               [] w.create.create_kw = "Error" ->
                    Run(Append(conn.calls, kw), << >>,
                        Raised(Exc("Error", CallError("Error", "create_kw"))))
               [] OTHER ->
                    IF w.create.create_pos = "truthy"
                    THEN Run(conn.calls \o <<kw, pos>>, << >>,
                             Returned(CreatedTicket(a.ticket_data)))
                    ELSE Run(conn.calls \o <<kw, pos>>, << >>,
                             Raised(Exc(w.create.create_pos,
                                        CallError(w.create.create_pos, "create_pos"))))

CreateTicket ==
    /\ op = "idle"
    /\ \E ticket_data \in TicketData, configured \in BOOLEAN, c \in CreateWorlds :
         LET a == [ticket_data |-> ticket_data]
             w == [configured |-> configured, create |-> c]
             run == create_ticket(a, w)
         IN  /\ op' = "create_ticket"
             /\ arg' = a
             /\ world' = w
             /\ calls' = run.calls
             /\ attempts' = run.attempts
             /\ result' = run.result
    /\ UNCHANGED <<fs, race>>

----------------------------------------------------------------------------
(* The single-record fetch and the ticket-scoped article fetch as         *)
(* operations of their own.                                                *)

GetTicket ==
    /\ op = "idle"
    /\ \E ticket_id \in TicketIds, configured \in BOOLEAN, ticketFind \in {"ok", "Error"} :
         LET w == [configured |-> configured, ticketFind |-> ticketFind]
             run == get_ticket(ticket_id, w)
         IN  /\ op' = "get_ticket"
             /\ arg' = [ticket_id |-> ticket_id]
             /\ world' = w
             /\ calls' = run.calls
             /\ attempts' = run.attempts
             /\ result' = run.result
    /\ UNCHANGED <<fs, race>>

\* How the listing and its retry end.
ScopedAlls ==
    {<<f, "page">> : f \in {"page", "Error"}}
    \cup {<<"TypeError", s>> : s \in {"page", "Error", "TypeError"}}

GetTicketArticles ==
    /\ op = "idle"
    /\ \E ticket_id \in TicketIds, configured \in BOOLEAN, alls \in ScopedAlls,
           chain \in ArticleChains :
         LET w == [configured |-> configured, articleAll |-> alls, chain |-> chain]
             run == get_ticket_articles(ticket_id, w, 1)
         IN  /\ op' = "get_ticket_articles"
             /\ arg' = [ticket_id |-> ticket_id]
             /\ world' = w
             /\ calls' = run.calls
             /\ attempts' = run.attempts
             /\ result' = run.result
    /\ UNCHANGED <<fs, race>>

----------------------------------------------------------------------------
(* The caller: the orchestrator's agents invoke one tool at a time and     *)
(* take its result before the next invocation.                             *)

Return ==
    /\ op # "idle"
    /\ op' = "idle"
    /\ arg' = None
    /\ world' = None
    /\ calls' = << >>
    /\ attempts' = << >>
    /\ result' = None
    /\ UNCHANGED <<fs, race>>

----------------------------------------------------------------------------

Init ==
    /\ op = "idle"
    /\ arg = None
    /\ world = None
    /\ calls = << >>
    /\ attempts = << >>
    /\ result = None
    /\ fs = NoFiles
    /\ race = NoRace

\* The operations grouped by the part of the adapter they exercise.  The
\* adapter shares nothing between operations, so each group is a
\* specification of its own.
NextPages == GetAllTickets \/ Return

NextSend == SendMessageToTicket \/ Return

NextUpdate == SetTicketState \/ SetTicketPriority \/ Return

NextRead == ListArticleAttachments \/ Return

NextDownload == DownloadAttachment \/ Return

SpecDownload == Init /\ [][NextDownload]_vars

NextDetail == GetTicketDetails \/ Return

SpecDetail == Init /\ [][NextDetail]_vars

SpecRead == Init /\ [][NextRead]_vars

SpecPages == Init /\ [][NextPages]_vars

SpecSend == Init /\ [][NextSend]_vars

SpecUpdate == Init /\ [][NextUpdate]_vars

\* Independent callers of download_attachment, outside the orchestrator's
\* one-tool-at-a-time discipline.
NextRace ==
    \/ StartDownloads
    \/ \E p \in Downloaders : Mkdir(p)
    \/ \E p \in Downloaders : OpenTruncate(p)
    \/ \E p \in Downloaders : Write(p)
    \/ \E p \in Downloaders : Close(p)
    \/ FinishDownloads

SpecRace == Init /\ [][NextRace]_vars

\* The operations that change the backend or the filesystem.
NextWrite ==
    \/ CreateTicket
    \/ SetTicketState
    \/ SetTicketPriority
    \/ SendMessageToTicket
    \/ DownloadAttachment
    \/ Return

SpecWrite == Init /\ [][NextWrite]_vars

Next ==
    \/ GetAllTickets
    \/ GetTicket
    \/ GetTicketArticles
    \/ CreateTicket
    \/ SendMessageToTicket
    \/ SetTicketState
    \/ SetTicketPriority
    \/ ListArticleAttachments
    \/ GetTicketDetails
    \/ DownloadAttachment
    \/ Return

Spec == Init /\ [][Next]_vars

----------------------------------------------------------------------------
(* Properties.                                                             *)

Max(S) == CHOOSE x \in S : \A y \in S : y <= x
Min(S) == CHOOSE x \in S : \A y \in S : x <= y

\* The shapes of the calls that reached the backend, the connection aside.
BackendShapes == [i \in 1..Len(SelectSeq(calls, LAMBDA c : c.api # "ZammadAPI")) |->
                    SelectSeq(calls, LAMBDA c : c.api # "ZammadAPI")[i].shape]

IsRaiser(o) == o \in {"TypeError", "Error"}

\* ---- Page Collector -----------------------------------------------------

\* A paginated input of P pages: every page holds something and every page
\* but the last leads to the next one.
Paginated(chain) ==
    /\ \A i \in 1..Len(chain) : Len(chain[i].items) > 0
    /\ \A i \in 1..(Len(chain) - 1) : chain[i].hasNext

AllItems(chain) == Flatten([i \in 1..Len(chain) |-> chain[i].items])

PageFetches == Cardinality({i \in 1..Len(calls) : calls[i].api \in {"ticket", "page"}})

Collected ==
    /\ op = "get_all_tickets"
    /\ result.status = "returned"
    /\ Paginated(world.chain)

\* C5 as stated: the collector returns the N items of the P pages in page
\* order and original order within a page, after P+1 page fetches.
C5_PlusOneFetches ==
    Collected =>
        /\ result.value = AllItems(world.chain)
        /\ PageFetches = Len(world.chain) + 1

\* C5 amended: the collector returns the N items of the P pages in page
\* order and original order within a page; it makes P+1 page fetches when
\* the last page exposes next-page (or there is no page at all), and P page
\* fetches when the last page has no next-page capability.
C5_CollectInOrder ==
    Collected =>
        LET P == Len(world.chain)
        IN  /\ result.value = AllItems(world.chain)
            /\ PageFetches = IF P = 0 \/ world.chain[P].hasNext THEN P + 1 ELSE P

C5_Witness ==
    /\ Collected
    /\ Len(world.chain) = 2
    /\ world.chain[1].kind = "iter" /\ Len(world.chain[1].items) = 2
    /\ world.chain[2].kind = "single" /\ ~world.chain[2].hasNext
    /\ result.value = <<2, 1, 1>>
    /\ PageFetches = 2

\* ---- sendMessageToTicket ------------------------------------------------

Sent == op = "send_message_to_ticket" /\ world.configured

\* The documented shapes this client offers, in the documented order.
Offered(shape) == shape \in Range(CreateShapes) => world.hasTicketArticle
Candidates == SelectSeq(SendShapes, Offered)

Successes == {i \in 1..Len(Candidates) : world.outcome[Candidates[i]] = "truthy"}

\* C2: the candidates are invoked in the documented order, each at most
\* once; nothing is invoked or sent to the backend after the first candidate
\* that returns a truthy response without error; when the first k-1
\* candidates fail and the k-th succeeds, exactly k attempts are observed.
C2_SendProbesInOrder ==
    Sent =>
        /\ Len(attempts) <= Len(Candidates)
        /\ attempts = SubSeq(Candidates, 1, Len(attempts))
        /\ \A i \in 1..(Len(attempts) - 1) : world.outcome[attempts[i]] # "truthy"
        /\ Successes # {} =>
             /\ Len(attempts) = Min(Successes)
             /\ BackendShapes = SubSeq(Candidates, 1, Min(Successes))
        /\ world.hasTicketArticle => Candidates = SendShapes

C2_Witness ==
    /\ Sent
    /\ world.hasTicketArticle
    /\ world.outcome["create_params_kw"] = "TypeError"
    /\ world.outcome["create_params_pos"] = "falsy"
    /\ world.outcome["create_id_params_pos"] = "truthy"
    /\ world.outcome["update_kw"] = "truthy"
    /\ Len(attempts) = 3
    /\ Len(BackendShapes) = 3
    /\ result.status = "returned"

\* The error of the last candidate that raised, if any did.
LastRaised ==
    LET R == {i \in 1..Len(Candidates) : IsRaiser(world.outcome[Candidates[i]])}
    IN  IF R = {} THEN NoError
        ELSE CallError(world.outcome[Candidates[Max(R)]], Candidates[Max(R)])

\* C10: sendMessageToTicket fails with BackendError exactly when every
\* candidate was attempted and none returned a truthy response, and the
\* error carries the error of the last candidate that raised.
C10_SendBackendError ==
    op = "send_message_to_ticket" =>
        /\ (result.status = "raised" /\ result.error.type = "RuntimeError")
             <=> (/\ world.configured
                  /\ attempts = Candidates
                  /\ Successes = {})
        /\ result.error.type = "RuntimeError" => result.error.last = LastRaised

C10_Witness ==
    /\ Sent
    /\ result.status = "raised"
    /\ result.error.type = "RuntimeError"
    /\ Len(attempts) = 6
    /\ world.outcome["create_params_kw"] = "TypeError"
    /\ world.outcome["create_expanded_kw"] = "Error"
    /\ world.outcome["update_pos"] = "falsy"
    /\ result.error.last = CallError("Error", "create_expanded_kw")

\* ---- setTicketPriority --------------------------------------------------

UpdateCalls == SelectSeq(calls, LAMBDA c : c.api = "ticket.update")

\* Two letters that differ at most in case.
SameLetter(c, d) == c = d \/ {c, d} \in {{"u", "U"}, {"p", "P"}, {"l", "L"}}

SameNameIgnoringCase(m, n) ==
    Len(m) = Len(n) /\ \A i \in 1..Len(m) : SameLetter(m[i], n[i])

\* setTicketPriority called with a name and no id, with a connection.
ByName ==
    /\ op = "set_ticket_priority"
    /\ world.configured
    /\ arg.priority_id = Nil
    /\ arg.priority_name # Nil

ListedPriorities == AllItems(world.chain)

MatchingEntries ==
    IF world.listingRaises THEN {}
    ELSE {i \in 1..Len(ListedPriorities) :
            SameNameIgnoringCase(ListedPriorities[i].name, arg.priority_name[1])}

\* C6: by name, the update is sent with the id of the first listed priority
\* whose name equals the given one case-insensitively; without such an entry,
\* or when the listing raises, the operation fails with ValidationError and
\* the listing's exception does not reach the caller.
C6_PriorityByName ==
    ByName =>
        IF MatchingEntries # {}
        THEN /\ Len(UpdateCalls) >= 1
             /\ \A i \in 1..Len(UpdateCalls) :
                  UpdateCalls[i].args.params =
                      ("priority_id" :> ListedPriorities[Min(MatchingEntries)].id)
             /\ result.error.type # "ValueError"
        ELSE /\ result.status = "raised"
             /\ result.error.type = "ValueError"
             /\ Len(UpdateCalls) = 0

C6_Witness ==
    /\ ByName
    /\ arg.priority_name = Some(<<"U", "p">>)
    /\ Len(ListedPriorities) = 2
    /\ ListedPriorities[1] = [id |-> 2, name |-> <<"u", "P">>]
    /\ ListedPriorities[2] = [id |-> 1, name |-> <<"U", "p">>]
    /\ result.status = "returned"
    /\ UpdateCalls[1].args.params = ("priority_id" :> 2)

\* ---- setTicketState -----------------------------------------------------

NoDiscriminator == arg.state = Nil /\ arg.state_id = Nil

\* The parameters holding exactly the supplied discriminators.
SuppliedDiscriminators ==
    [k \in (IF arg.state # Nil THEN {"state"} ELSE {})
           \cup (IF arg.state_id # Nil THEN {"state_id"} ELSE {}) |->
        IF k = "state" THEN arg.state[1] ELSE arg.state_id[1]]

SendsSupplied ==
    ~NoDiscriminator =>
        \A i \in 1..Len(UpdateCalls) : UpdateCalls[i].args.params = SuppliedDiscriminators

\* C7 as stated: setTicketState fails with ValidationError if and only if
\* neither state nor stateId is supplied, and otherwise sends exactly the
\* supplied discriminators.
C7_ValidationIffNeither ==
    op = "set_ticket_state" =>
        /\ (result.status = "raised" /\ result.error.type = "ValueError") <=> NoDiscriminator
        /\ SendsSupplied

\* C7 amended: with a connection, setTicketState fails with ValidationError
\* if and only if neither state nor stateId is supplied; without the
\* connection setting it fails with the configuration error before the
\* check, whatever is supplied; the update sent carries exactly the supplied
\* discriminators.
C7_ValidationAfterConnection ==
    op = "set_ticket_state" =>
        /\ world.configured =>
             ((result.status = "raised" /\ result.error.type = "ValueError") <=> NoDiscriminator)
        /\ ~world.configured =>
             (result.status = "raised" /\ result.error.type = "EnvironmentError")
        /\ SendsSupplied
        /\ (world.configured /\ ~NoDiscriminator) => Len(UpdateCalls) >= 1

C7_Witness ==
    /\ op = "set_ticket_state"
    /\ world.configured
    /\ arg.state = Some("open")
    /\ arg.state_id = Some(4)
    /\ Len(UpdateCalls) = 2
    /\ UpdateCalls[2].args.params = ("state" :> "open") @@ ("state_id" :> 4)
    /\ result.status = "returned"

\* ---- listAttachments ----------------------------------------------------

Listed == op = "list_article_attachments"

CallShapes == [i \in 1..Len(calls) |-> calls[i].shape]

\* The article fetched by ticket+article id carries a non-empty embedded
\* `attachments` list.
HasEmbedded ==
    /\ world.find1.kind = "dict"
    /\ "attachments" \in DOMAIN world.find1.fields
    /\ world.find1.fields["attachments"].kind = "list"
    /\ world.find1.fields["attachments"].vals # << >>

\* The listing endpoint exists and one of its two call shapes serves a
\* non-empty page.
EndpointServes ==
    /\ world.hasAttachmentEndpoint
    /\ world.allKw = "page" \/ (world.allKw = "TypeError" /\ world.allPos = "page")
    /\ world.attChain # << >>
    /\ world.attChain[1].items # << >>

\* The article fetched by id alone holds a non-empty list in a legacy field.
HasLegacy ==
    /\ world.find2.kind = "dict"
    /\ \E k \in DOMAIN world.find2.fields :
         world.find2.fields[k].kind = "list" /\ world.find2.fields[k].vals # << >>

\* C3: a non-empty embedded `attachments` list is the result, and neither the
\* listing endpoint nor the fetch by article id alone is called, whatever the
\* listing endpoint would have returned.
C3_EmbeddedWins ==
    (Listed /\ world.configured /\ HasEmbedded) =>
        /\ result.status = "returned"
        /\ result.value = world.find1.fields["attachments"].vals
        /\ CallShapes = <<"connect", "find_kw">>

C3_Witness ==
    /\ Listed /\ world.configured /\ HasEmbedded
    /\ EndpointServes
    /\ world.attChain[1].items = <<AttB>>
    /\ result.value = <<AttA>>

IsSequence(v) == DOMAIN v = 1..Len(v)

\* C4 as stated: listAttachments never raises, whatever the outcome of the
\* connection acquisition and of each backend call, and returns a sequence,
\* empty when no strategy yields anything.
C4_NeverRaises ==
    Listed =>
        /\ result.status = "returned"
        /\ IsSequence(result.value)
        /\ (~HasEmbedded /\ ~EndpointServes /\ ~HasLegacy) => result.value = << >>

\* C4 amended: once the connection is acquired listAttachments never raises,
\* whatever the outcome of each backend call, and returns a sequence, empty
\* when no strategy yields anything; when the connection cannot be acquired
\* the configuration error is raised before any strategy is tried.
C4_NeverRaisesOnceConnected ==
    Listed =>
        /\ world.configured =>
             /\ result.status = "returned"
             /\ IsSequence(result.value)
             /\ (~HasEmbedded /\ ~EndpointServes /\ ~HasLegacy) => result.value = << >>
        /\ ~world.configured =>
             /\ result.status = "raised"
             /\ result.error.type = "EnvironmentError"
             /\ calls = << >>

C4_Witness ==
    /\ Listed /\ world.configured
    /\ world.find1 = FindRaises
    /\ world.hasAttachmentEndpoint /\ world.allKw = "Error"
    /\ world.find2 = FindRaises
    /\ CallShapes = <<"connect", "find_kw", "all_kw", "find_pos">>
    /\ result = Returned(<< >>)

\* ---- getTicketDetail ----------------------------------------------------

Detailed == op = "get_ticket_details"

\* C1: getTicketDetail never raises and returns a detail whose ticket is
\* present, whatever the configuration and the outcome of the ticket fetch,
\* of the article fetches and of the discovery; when the ticket fetch fails
\* the ticket is a placeholder with the requested id and the error.
C1_DetailNeverRaises ==
    Detailed =>
        /\ result.status = "returned"
        /\ result.value.ticket.id = arg.ticket_id
        /\ (world.configured /\ world.ticketFind # "ok") =>
              result.value.ticket = [id |-> arg.ticket_id, error |-> world.ticketFind]

\* With the connection setting present the detail view is returned in every
\* combination of failures.
C1_ReturnsWhenConfigured ==
    (Detailed /\ world.configured) =>
        /\ result.status = "returned"
        /\ result.value.ticket.id = arg.ticket_id
        /\ world.ticketFind # "ok" =>
              result.value.ticket = [id |-> arg.ticket_id, error |-> world.ticketFind]

\* ---- downloadAttachment -------------------------------------------------

Downloaded == op = "download_attachment" /\ world.configured

\* The documented download shapes this client offers, in the documented
\* order.
DownloadOffered(shape) ==
    /\ shape \in Range(CollectionShapes) => world.hasCollection
    /\ shape \in Range(GenericShapes) => world.hasGeneric
DownloadCandidates == SelectSeq(DownloadShapes, DownloadOffered)

DownloadSuccesses ==
    {i \in 1..Len(DownloadCandidates) : world.outcome[DownloadCandidates[i]] = "truthy"}

DownloadLastRaised ==
    LET R == {i \in 1..Len(DownloadCandidates) : IsRaiser(world.outcome[DownloadCandidates[i]])}
    IN  IF R = {} THEN NoError
        ELSE CallError(world.outcome[DownloadCandidates[Max(R)]], DownloadCandidates[Max(R)])

\* C8: the download candidates are invoked in the fixed order and the probing
\* stops at the first truthy response; when no candidate returns a truthy
\* response the operation fails with DownloadError carrying the error of the
\* last candidate that raised.
C8_DownloadProbesInOrder ==
    Downloaded =>
        /\ Len(attempts) <= Len(DownloadCandidates)
        /\ attempts = SubSeq(DownloadCandidates, 1, Len(attempts))
        /\ \A i \in 1..(Len(attempts) - 1) : world.outcome[attempts[i]] # "truthy"
        /\ DownloadSuccesses # {} =>
             /\ Len(attempts) = Min(DownloadSuccesses)
             /\ result.error.type # "RuntimeError"
        /\ DownloadSuccesses = {} =>
             /\ attempts = DownloadCandidates
             /\ result.status = "raised"
             /\ result.error = Exc("RuntimeError", DownloadLastRaised)
        /\ (world.hasCollection /\ world.hasGeneric) => DownloadCandidates = DownloadShapes

C8_Witness ==
    /\ Downloaded
    /\ world.hasCollection /\ world.hasGeneric /\ world.hasDownload
    /\ world.outcome["download_collection_kw"] = "Error"
    /\ world.outcome["download_generic_kw"] = "Error"
    /\ world.outcome["download_generic_pos"] = "falsy"
    /\ Len(attempts) = 5
    /\ Len(calls) = 6
    /\ result.error = Exc("RuntimeError", CallError("Error", "download_generic_kw"))

\* A download that got a mapping with a `data` field.
GotData ==
    /\ Downloaded
    /\ DownloadSuccesses # {}
    /\ world.resp.kind = "dict"
    /\ world.resp.data.kind # "absent"

\* C9: normalizing a mapping with a `data` field never raises: the file
\* holds the decoded bytes when `data` decodes, and the serialized mapping
\* when it does not, and the destination path is returned.
C9_DataNeverRaises ==
    GotData =>
        /\ result = Returned(arg.dest_path)
        /\ fs.dir
        /\ fs.file = IF b64decode(world.resp.data).ok
                     THEN RawBytes(b64decode(world.resp.data).bytes)
                     ELSE JsonOf(world.resp)

\* The normalization of a mapping with a `data` field raises only out of
\* the serialization of a mapping that cannot be serialized.
C9_RaisesOnlyUnserializable ==
    GotData =>
        IF b64decode(world.resp.data).ok \/ Serializable(world.resp)
        THEN /\ result = Returned(arg.dest_path)
             /\ fs.file = IF b64decode(world.resp.data).ok
                          THEN RawBytes(b64decode(world.resp.data).bytes)
                          ELSE JsonOf(world.resp)
        ELSE /\ result.status = "raised"
             /\ result.error.type = "TypeError"

\* ---- Page Collector termination ------------------------------------------

NextPageCallCount == Cardinality({i \in 1..Len(calls) : calls[i].api = "page"})

Falsy(page) == Len(page.items) = 0

Drained == op = "get_all_tickets" /\ result.status = "returned"

\* Position of the first falsy page the backend serves after the first one;
\* past the end of the chain the backend serves nothing, which is falsy.
FirstFalsy(chain) ==
    Min({i \in 2..Len(chain) : Falsy(chain[i])} \cup {Len(chain) + 1})

\* Position of the last page that is collected: the first page up to
\* FirstFalsy that does not lead on, or the page in front of FirstFalsy.
LastCollected(chain) ==
    Min({i \in 1..(FirstFalsy(chain) - 1) : ~chain[i].hasNext}
            \cup {FirstFalsy(chain) - 1})

\* C18 as stated: collect terminates, invokes next-page no more after the
\* first falsy result and leaves out the items of later pages; a first page
\* that is a single non-iterable item, or that has no next-page capability,
\* ends the collection with zero next-page calls.
C18_SingleFirstPageNoNextCall ==
    Drained /\ Len(world.chain) > 0 /\ ~Falsy(world.chain[1]) =>
        /\ NextPageCallCount <= FirstFalsy(world.chain) - 1
        /\ Len(result.value) <=
               Len(AllItems(SubSeq(world.chain, 1, FirstFalsy(world.chain) - 1)))
        /\ (world.chain[1].kind = "single" \/ ~world.chain[1].hasNext)
               => NextPageCallCount = 0

\* C18 amended: collect terminates; a falsy first page gives the empty
\* sequence with zero next-page calls; otherwise next-page is invoked on
\* each collected page that exposes it, iterable or not, until a page lacks
\* the capability or the result is falsy, and never after the first falsy
\* result; exactly the pages in front of that point are collected.  A first
\* page without the capability ends the collection with zero next-page
\* calls.
C18_StopsAtFirstFalsy ==
    Drained =>
        IF Len(world.chain) = 0 \/ Falsy(world.chain[1])
        THEN result.value = << >> /\ NextPageCallCount = 0
        ELSE LET k == LastCollected(world.chain)
             IN  /\ result.value = AllItems(SubSeq(world.chain, 1, k))
                 /\ NextPageCallCount = IF world.chain[k].hasNext THEN k ELSE k - 1
                 /\ NextPageCallCount <= FirstFalsy(world.chain) - 1
                 /\ ~world.chain[1].hasNext => NextPageCallCount = 0

C18_Witness ==
    /\ Drained
    /\ Len(world.chain) = 3
    /\ world.chain[1].items = <<1, 2>>
    /\ Falsy(world.chain[2])
    /\ world.chain[3].items = <<2>>
    /\ result.value = <<1, 2>>
    /\ NextPageCallCount = 1

\* ---- validation failures and the priority id -----------------------------

ValidationError == result.status = "raised" /\ result.error.type = "ValueError"

PriorityListingCalls == SelectSeq(calls, LAMBDA c : c.api = "ticket_priority")

ByPriorityId == op = "set_ticket_priority" /\ arg.priority_id # Nil

\* C20: when setTicketState or setTicketPriority fails with ValidationError,
\* no ticket-update call was issued in that invocation; and when
\* setTicketPriority is given a priorityId the priority listing is never
\* called and, whatever priorityName says, the update that the connected
\* client issues carries the supplied id.
C20_ValidationBeforeUpdate ==
    /\ op \in {"set_ticket_state", "set_ticket_priority"} /\ ValidationError
           => UpdateCalls = << >>
    /\ ByPriorityId =>
           /\ PriorityListingCalls = << >>
           /\ world.configured => Len(UpdateCalls) >= 1
           /\ \A i \in 1..Len(UpdateCalls) :
                  UpdateCalls[i].args.params = ("priority_id" :> arg.priority_id[1])

C20_Witness ==
    /\ ByPriorityId
    /\ arg.priority_name = Some(<<"l", "p">>)
    /\ world.configured
    /\ world.update.update_kw = "TypeError"
    /\ Len(UpdateCalls) = 2
    /\ UpdateCalls[2].args.params = ("priority_id" :> 9)
    /\ PriorityListingCalls = << >>

\* A validation failure after the priority listing was consulted.
C20_WitnessUnresolved ==
    /\ ByName
    /\ Len(ListedPriorities) = 2
    /\ ValidationError
    /\ Len(PriorityListingCalls) = 1
    /\ UpdateCalls = << >>

\* ---- failed downloads and the filesystem ---------------------------------

DownloadError ==
    /\ op = "download_attachment"
    /\ result.status = "raised"
    /\ result.error.type = "RuntimeError"

\* C19: a download that fails with DownloadError, no candidate having
\* returned a truthy response (an empty byte buffer is such a falsy
\* response), leaves the filesystem as it was: no parent directory is
\* created and an existing destination file keeps its content.
C19_FailedDownloadKeepsFiles ==
    [][DownloadError' /\ op = "idle" => fs' = fs]_vars

\* A failed download after an earlier one wrote the destination.
C19_Witness ==
    /\ DownloadError
    /\ Len(attempts) >= 1
    /\ \E i \in 1..Len(attempts) : world.outcome[attempts[i]] = "falsy"
    /\ fs.dir
    /\ fs.file.kind # "absent"

\* A failed download with nothing at the destination.
C19_WitnessFresh == DownloadError /\ fs = NoFiles

\* ---- listAttachments, the fetch by article id alone ----------------------

ByIdAloneCalled == \E i \in 1..Len(calls) : calls[i].shape = "find_pos"

\* The legacy field names, in the documented order, under which the article
\* fetched by id alone holds a non-empty list.
LegacyHits ==
    IF world.find2.kind # "dict" THEN {}
    ELSE {k \in 1..3 :
            LET key == <<"attachment_ids", "attachments_ids", "attachments">>[k]
            IN  /\ key \in DOMAIN world.find2.fields
                /\ world.find2.fields[key].kind = "list"
                /\ world.find2.fields[key].vals # << >>}

LegacyFound ==
    world.find2.fields[<<"attachment_ids", "attachments_ids", "attachments">>[Min(LegacyHits)]].vals

\* A structured record stays; another value v becomes
\* {id: v, filename: "attachment_<v>"}.
AsRecord(v) ==
    IF v.kind = "dict" THEN v
    ELSE [kind |-> "dict", id |-> v.id, filename |-> <<"attachment_", v.id>>]

\* C17: the fetch by article id alone happens only when the embedded list
\* and the listing endpoint yielded nothing; the result is then made from the
\* values of the first of attachment_ids, attachments_ids, attachments found,
\* in their order, each structured record kept and each other value v
\* replaced by {id: v, filename: "attachment_<v>"}.
C17_LegacyNormalized ==
    (Listed /\ ByIdAloneCalled) =>
        /\ ~HasEmbedded /\ ~EndpointServes
        /\ result.status = "returned"
        /\ IF LegacyHits = {} THEN result.value = << >>
           ELSE /\ Len(result.value) = Len(LegacyFound)
                /\ \A i \in 1..Len(LegacyFound) : result.value[i] = AsRecord(LegacyFound[i])

C17_Witness ==
    /\ Listed /\ ByIdAloneCalled
    /\ DOMAIN world.find2.fields = {"attachment_ids", "attachments_ids", "attachments"}
    /\ world.find2.fields["attachment_ids"] = OtherValue
    /\ world.find2.fields["attachments_ids"] = ListValue(<<Scalar(7), AttB>>)
    /\ world.find2.fields["attachments"] = ListValue(<<AttA, Scalar(8)>>)
    /\ result.value = <<AttRecord(7, <<"attachment_", 7>>), AttB>>

\* ---- sendMessageToTicket, the shape of the result ------------------------

\* C14: whichever candidate succeeded, a successful sendMessageToTicket
\* returns an Article; the update-ticket-with-nested-article candidates
\* return no other kind of record than the article-create candidates.
C14_ResultIsArticle ==
    (Sent /\ result.status = "returned") => result.value.record = "Article"

\* What the code does: the response of the winning call is returned as it
\* is, an Article from the article endpoint and a Ticket from the ticket
\* endpoint.
C14_ResultIsRawResponse ==
    (Sent /\ result.status = "returned") =>
        LET won == attempts[Len(attempts)]
        IN  result.value.record =
                IF won \in {"update_kw", "update_pos"} THEN "Ticket" ELSE "Article"

\* ---- getTicketDetail, the articles ---------------------------------------

ArticleFetches == Cardinality({i \in 1..Len(calls) : calls[i] = ArticleAllCall})

\* Whether the fetch-all path, and after it the ticket-scoped fetch with its
\* retry on a signature mismatch, deliver the collection.
FetchAllServes == world.articleAll[1] = "page"
ScopedServes ==
    \/ world.articleAll[2] = "page"
    \/ world.articleAll[2] = "TypeError" /\ world.articleAll[3] = "page"

BackendArticles == AllItems(world.chain)

ArticlesOfRequested ==
    SelectSeq(BackendArticles, LAMBDA x : x.ticket_id = arg.ticket_id)

\* C15: the articles come from the fetch-all-then-filter path; the
\* ticket-scoped fetch is attempted only if that path raised, and the
\* sequence is empty for lack of a fetch only if both raised.  The returned
\* articles are those of the requested ticket, in backend order, and no
\* article-fetch failure makes the call raise.
C15_ArticleFallback ==
    (Detailed /\ world.configured) =>
        /\ result.status = "returned"
        /\ result.value.articles =
               IF FetchAllServes \/ ScopedServes THEN ArticlesOfRequested ELSE << >>
        /\ \A i \in 1..Len(result.value.articles) :
               result.value.articles[i].ticket_id = arg.ticket_id
        /\ ArticleFetches =
               IF FetchAllServes THEN 1
               ELSE IF world.articleAll[2] = "TypeError" THEN 3 ELSE 2

C15_Witness ==
    /\ Detailed /\ world.configured
    /\ world.articleAll = <<"Error", "TypeError", "page">>
    /\ BackendArticles = <<[id |-> 2, ticket_id |-> 2], [id |-> 1, ticket_id |-> 1]>>
    /\ result.value.articles = <<[id |-> 1, ticket_id |-> 1]>>
    /\ ArticleFetches = 3

\* Both article fetches raise and the detail view is returned all the same.
C15_WitnessBothFail ==
    /\ Detailed /\ world.configured
    /\ world.articleAll = <<"Error", "Error", "page">>
    /\ BackendArticles # << >>
    /\ result.status = "returned"
    /\ result.value.articles = << >>

\* ---- getTicketDetail, the attachments ------------------------------------

DetailReturned == Detailed /\ world.configured /\ result.status = "returned"

ReturnedArticles == result.value.articles

\* The discoveries observed at the backend: the fetches by ticket and
\* article id, one at the start of each discovery that got a client.
DiscoveryFetches == SelectSeq(calls, LAMBDA c : c.shape = "find_kw")

DiscoveryFails(art) == ~world.att[art.id].configured

\* What the discovery of an article delivers in the detail worlds: the
\* embedded list when the article carries one.
Discoverable(art) ==
    LET d == world.att[art.id]
    IN  IF d.find1.kind = "dict" /\ "attachments" \in DOMAIN d.find1.fields
        THEN d.find1.fields["attachments"].vals ELSE << >>

Reached == SelectSeq(ReturnedArticles, LAMBDA x : ~DiscoveryFails(x))

\* C16: with includeAttachments the discovery runs once for every returned
\* article, in order; a discovery that fails maps its article to the empty
\* list and the discoveries of the later articles still run, so that every
\* returned article has an entry.  Without includeAttachments there is no
\* discovery call and the mapping is empty.
C16_DiscoveryPerArticle ==
    DetailReturned =>
        IF arg.include_attachments
        THEN /\ DOMAIN result.value.attachments =
                    {ReturnedArticles[i].id : i \in 1..Len(ReturnedArticles)}
             /\ \A i \in 1..Len(ReturnedArticles) :
                    result.value.attachments[ReturnedArticles[i].id] =
                        IF DiscoveryFails(ReturnedArticles[i]) THEN << >>
                        ELSE Discoverable(ReturnedArticles[i])
             /\ Len(DiscoveryFetches) = Len(Reached)
             /\ \A i \in 1..Len(Reached) : DiscoveryFetches[i].args.id = Reached[i].id
        ELSE /\ DOMAIN result.value.attachments = {}
             /\ DiscoveryFetches = << >>
             /\ \A i \in 1..Len(calls) :
                    calls[i].api \notin {"ticket_article.find", "ticket_article_attachment.all"}

C16_Witness ==
    /\ DetailReturned /\ arg.include_attachments
    /\ ReturnedArticles = <<[id |-> 1, ticket_id |-> 1], [id |-> 2, ticket_id |-> 1]>>
    /\ DiscoveryFails(ReturnedArticles[1])
    /\ ~DiscoveryFails(ReturnedArticles[2])
    /\ result.value.attachments = (1 :> << >>) @@ (2 :> <<AttA>>)
    /\ Len(DiscoveryFetches) = 1
    /\ DiscoveryFetches[1].args.id = 2

C16_WitnessNoAttachments ==
    /\ DetailReturned /\ ~arg.include_attachments
    /\ Len(ReturnedArticles) = 2
    /\ DOMAIN result.value.attachments = {}

\* ---- backend failures and the call-shape candidates ----------------------

\* The operation failed because of the backend: not for lack of a
\* connection, not in the validation and not in the normalization.
BackendFailure ==
    /\ result.status = "raised"
    /\ result.error.type = "RuntimeError" \/ result.error.last # NoError

\* The two-shape operations, the call the backend receives and how its
\* keyword and positional shapes end.
TwoShaped == op \in {"create_ticket", "set_ticket_state", "set_ticket_priority"}

TwoShapeCalls ==
    SelectSeq(calls, LAMBDA c : c.api = (IF op = "create_ticket" THEN "ticket.create"
                                         ELSE "ticket.update"))

KeywordOutcome ==
    IF op = "create_ticket" THEN world.create.create_kw ELSE world.update.update_kw

PositionalOutcome ==
    IF op = "create_ticket" THEN world.create.create_pos ELSE world.update.update_pos

\* The candidates of the operation in the state, and those invoked.
CandidatesOffered ==
    CASE op = "send_message_to_ticket" -> Len(Candidates)
      [] op = "download_attachment" -> Len(DownloadCandidates)
      [] OTHER -> 2

CandidatesAttempted ==
    IF TwoShaped THEN Len(TwoShapeCalls) ELSE Len(attempts)

WritePath ==
    /\ op \in {"create_ticket", "set_ticket_state", "set_ticket_priority",
               "send_message_to_ticket", "download_attachment"}
    /\ world.configured

\* C13 as stated: a backend failure of a write-path or download operation
\* reaches the caller only after every call-shape candidate of the operation
\* was attempted, whatever the error of the earlier candidates.
C13_FailsAfterEveryCandidate ==
    (WritePath /\ BackendFailure) => CandidatesAttempted = CandidatesOffered

\* C13 amended: sendMessageToTicket and downloadAttachment surface a backend
\* failure only after every candidate was attempted, whatever the error of
\* the earlier ones.  createTicket, setTicketState and setTicketPriority try
\* the positional shape only after a signature mismatch of the keyword
\* shape: any other error of the keyword shape is surfaced at once, with one
\* call made, and after a mismatch the outcome of the positional call is the
\* outcome of the operation.
C13_FailsAfterApplicableCandidates ==
    WritePath =>
        /\ (~TwoShaped /\ BackendFailure) => CandidatesAttempted = CandidatesOffered
        /\ (TwoShaped /\ TwoShapeCalls # << >>) =>
             CASE KeywordOutcome = "truthy" ->
                    Len(TwoShapeCalls) = 1 /\ result.status = "returned"
               [] KeywordOutcome = "TypeError" ->
                    /\ Len(TwoShapeCalls) = 2
                    /\ IF PositionalOutcome = "truthy" THEN result.status = "returned"
                       ELSE /\ BackendFailure
                            /\ result.error.type = PositionalOutcome
                            /\ result.error.last.type = PositionalOutcome
               [] OTHER ->
                    /\ Len(TwoShapeCalls) = 1
                    /\ BackendFailure
                    /\ result.error.type = KeywordOutcome
        /\ (TwoShaped /\ BackendFailure) => TwoShapeCalls # << >>

\* A signature mismatch of the keyword shape, the positional shape tried and
\* its error surfaced.
C13_Witness ==
    /\ op = "create_ticket" /\ world.configured
    /\ world.create = [create_kw |-> "TypeError", create_pos |-> "Error"]
    /\ Len(TwoShapeCalls) = 2
    /\ BackendFailure

\* Another error of the keyword shape, surfaced with one call made.
C13_WitnessSurfacedAtOnce ==
    /\ op = "set_ticket_state" /\ world.configured
    /\ world.update.update_kw = "Error"
    /\ Len(TwoShapeCalls) = 1
    /\ BackendFailure

\* Every download candidate attempted before the failure.
C13_WitnessDownload ==
    /\ op = "download_attachment" /\ world.configured
    /\ BackendFailure
    /\ Len(attempts) = 5
    /\ world.outcome[attempts[1]] = "Error"

\* ---- the Connection Factory ----------------------------------------------

Connections == Cardinality({i \in 1..Len(calls) : calls[i] = ConnectCall})

Invoked == op # "idle"

\* Every backend call of the invocation is made after a connection was
\* acquired in the same invocation.
OwnConnection == calls # << >> => calls[1] = ConnectCall

\* C12 as stated: each invocation of a public operation, getTicketDetail
\* included, acquires exactly one connection, and none is taken over from an
\* earlier invocation.
C12_OneConnectionPerInvocation ==
    (Invoked /\ world.configured) => Connections = 1 /\ OwnConnection

\* C12 amended: each invocation of the nine operations other than
\* getTicketDetail calls the factory exactly once; getTicketDetail calls it
\* once itself and once more in every operation it delegates to: the ticket
\* fetch, the fetch of all articles, the ticket-scoped article fetch when the
\* former raised, and the discovery of each article.  No invocation uses a
\* connection of an earlier one, and without the connection setting the one
\* factory call fails and no backend call is made.
C12_OneConnectionPerOperationBody ==
    Invoked =>
        /\ OwnConnection
        /\ ~world.configured =>
               /\ calls = << >>
               /\ result.status = "raised" /\ result.error.type = "EnvironmentError"
        /\ (world.configured /\ ~Detailed) => Connections = 1
        /\ (world.configured /\ Detailed) =>
               Connections = 3 + (IF FetchAllServes THEN 0 ELSE 1)
                               + (IF arg.include_attachments THEN Len(Reached) ELSE 0)

C12_Witness ==
    /\ Detailed /\ world.configured /\ arg.include_attachments
    /\ ~FetchAllServes
    /\ Len(Reached) = 2
    /\ Connections = 6

\* One connection in an operation that delegates to no other.
C12_WitnessSingle ==
    /\ op = "get_ticket_articles" /\ world.configured
    /\ world.articleAll[1] = "TypeError"
    /\ Connections = 1
    /\ Len(calls) = 3

\* ---- concurrent downloads to one destination -----------------------------

BothDone == \A p \in Downloaders : race.pc[p] = "done"

FinalContent == fs.file.bytes

Other(p) == 3 - p

\* What a sequence holds behind its first n elements.
Beyond(seq, n) == SubSeq(seq, n + 1, Len(seq))

\* C11 as stated: under every interleaving of the steps of two concurrent
\* downloads to one destination, the final content is the complete bytes of
\* exactly one of the two downloads, never a mixture.
C11_LastWriterWins ==
    BothDone => \E p \in Downloaders : FinalContent = race.data[p]

\* C11 amended: the final content begins with the complete bytes of the
\* download that wrote last; it is exactly those bytes when the other
\* download's bytes are not longer, and otherwise it is either exactly those
\* bytes or those bytes followed by the rest of the other download's longer
\* bytes, a mixture of both.
C11_LastWriterPrefix ==
    BothDone =>
        LET l == race.last
            mine == race.data[l]
            theirs == race.data[Other(l)]
        IN  /\ l \in Downloaders
            /\ fs.dir /\ fs.file.kind = "bytes"
            /\ FinalContent \in {mine, mine \o Beyond(theirs, Len(mine))}
            /\ Len(theirs) <= Len(mine) => FinalContent = mine

\* A shorter download writes last over a longer one: one byte of each.
C11_Witness ==
    /\ BothDone
    /\ race.data[1] = <<104, 105>>
    /\ race.data[2] = <<105>>
    /\ race.last = 2
    /\ FinalContent = <<105, 105>>

\* The same two downloads with the last writer's bytes alone.
C11_WitnessWins ==
    /\ BothDone
    /\ race.data[1] = <<104, 105>>
    /\ race.data[2] = <<105>>
    /\ race.last = 2
    /\ FinalContent = <<105>>

====
